---- MODULE Spec2Model ----
(***************************************************************************)
(* Keccak sponge and Keccak-f[1600] permutation of keccak.c.               *)
(*                                                                         *)
(* A byte (u8) is an integer in 0..255.  A 64-bit lane (u64) is the set of *)
(* its set bit positions, a subset of 0..63, so every lane operation keeps *)
(* exactly 64 bits.  Inside KeccakF1600 the 200-byte state is held as its  *)
(* 25 lanes A[1..25] (lane (x,y) at A[x + 5*y + 1]): the code reaches the  *)
(* state only through load64/store64/xor64 at the lane offsets 8*(x+5*y),  *)
(* and load64/store64 are the little-endian conversions modelled below.    *)
(***************************************************************************)
EXTENDS Integers, Sequences, FiniteSets, TLC

\* ---------------------------------------------------------------------
\* Machine words
\* ---------------------------------------------------------------------
Pow2(n) == 2^n

\* bit j of the byte v
BitOf(v, j) == (v \div Pow2(j)) % 2

\* the positions of the set bits of the byte v
BitsOf(v) == { j \in 0..7 : BitOf(v, j) = 1 }

\* u8 ^ u8
XorByte(a, b) ==
    ((BitOf(a,0) + BitOf(b,0)) % 2)       + ((BitOf(a,1) + BitOf(b,1)) % 2) * 2
  + ((BitOf(a,2) + BitOf(b,2)) % 2) * 4   + ((BitOf(a,3) + BitOf(b,3)) % 2) * 8
  + ((BitOf(a,4) + BitOf(b,4)) % 2) * 16  + ((BitOf(a,5) + BitOf(b,5)) % 2) * 32
  + ((BitOf(a,6) + BitOf(b,6)) % 2) * 64  + ((BitOf(a,7) + BitOf(b,7)) % 2) * 128

\* u64 ^ u64, u64 & u64, ~u64
XOR64(a, b) == (a \ b) \cup (b \ a)
AND64(a, b) == a \cap b
NOT64(a)    == (0..63) \ a

\* ((u64)a) << o and ((u64)a) >> o for 0 <= o <= 63: bits shifted out are lost
SHL64(a, o) == { i + o : i \in a \cap (0..(63 - o)) }
SHR64(a, o) == { i - o : i \in a \cap (o..63) }

\* mutant of ROL: the bits shifted out do not come back in
ROL_shiftOnly(a, o) == SHL64(a, o)

\* #define ROL(a,o) ((((u64)a)<<o)^(((u64)a)>>(64-o))), used with 1 <= o <= 63
ROL(a, o) == XOR64(SHL64(a, o), SHR64(a, 64 - o))

\* load64: u = 0; FOR(i,8) { u <<= 8; u |= x[7-i]; }  -- byte k of x becomes
\* bits 8k..8k+7 of u (little-endian)
load64(s, off) == UNION { { 8 * k + j : j \in BitsOf(s[off + k]) } : k \in 0..7 }

\* the byte that store64 writes to x[i]: the low 8 bits of u >> 8*i
ByteOfLane(u, i) ==
    (IF 8*i     \in u THEN 1  ELSE 0) + (IF 8*i + 1 \in u THEN 2   ELSE 0)
  + (IF 8*i + 2 \in u THEN 4  ELSE 0) + (IF 8*i + 3 \in u THEN 8   ELSE 0)
  + (IF 8*i + 4 \in u THEN 16 ELSE 0) + (IF 8*i + 5 \in u THEN 32  ELSE 0)
  + (IF 8*i + 6 \in u THEN 64 ELSE 0) + (IF 8*i + 7 \in u THEN 128 ELSE 0)

\* store64: FOR(i,8) { x[i] = u; u >>= 8; }
store64(s, off, u) ==
    [s EXCEPT ![off]     = ByteOfLane(u, 0), ![off + 1] = ByteOfLane(u, 1),
              ![off + 2] = ByteOfLane(u, 2), ![off + 3] = ByteOfLane(u, 3),
              ![off + 4] = ByteOfLane(u, 4), ![off + 5] = ByteOfLane(u, 5),
              ![off + 6] = ByteOfLane(u, 6), ![off + 7] = ByteOfLane(u, 7)]

\* xor64: FOR(i,8) { x[i] ^= u; u >>= 8; }
xor64(s, off, u) ==
    [s EXCEPT ![off]     = XorByte(@, ByteOfLane(u, 0)),
              ![off + 1] = XorByte(@, ByteOfLane(u, 1)),
              ![off + 2] = XorByte(@, ByteOfLane(u, 2)),
              ![off + 3] = XorByte(@, ByteOfLane(u, 3)),
              ![off + 4] = XorByte(@, ByteOfLane(u, 4)),
              ![off + 5] = XorByte(@, ByteOfLane(u, 5)),
              ![off + 6] = XorByte(@, ByteOfLane(u, 6)),
              ![off + 7] = XorByte(@, ByteOfLane(u, 7))]

\* the 25 lanes of the byte state s, lane (x,y) read at byte offset 8*(x+5*y)
Lanes(s) == [n \in 1..25 |-> load64(s, 8 * (n - 1))]

\* the byte state whose 25 lanes are A
Bytes(A) == [i \in 0..199 |-> ByteOfLane(A[(i \div 8) + 1], i % 8)]

\* rL(x,y), wL(x,y,l), XL(x,y,l) on the lanes
rL(A, x, y)    == A[x + 5 * y + 1]
wL(A, x, y, l) == [A EXCEPT ![x + 5 * y + 1] = l]
XL(A, x, y, l) == [A EXCEPT ![x + 5 * y + 1] = XOR64(@, l)]

\* ---------------------------------------------------------------------
\* Round-constant generator
\* ---------------------------------------------------------------------
\* mutant of LFSRNext: the feedback byte is 0x17
LFSRNext_poly(R) ==
    IF BitOf(R, 7) = 1 THEN XorByte((R * 2) % 256, 23) ELSE (R * 2) % 256

\* (*R) = ((*R) << 1) ^ (((*R) & 0x80) ? 0x71 : 0), stored back into a u8
LFSRNext(R) ==
    IF BitOf(R, 7) = 1 THEN XorByte((R * 2) % 256, 113) ELSE (R * 2) % 256

\* LFSR86540: the updated register and the returned bit ((*R) & 2) >> 1
LFSR86540(R) == [R |-> LFSRNext(R), bit |-> BitOf(LFSRNext(R), 1)]

\* ---------------------------------------------------------------------
\* Keccak-f[1600]
\* ---------------------------------------------------------------------
\* theta, first loop: C[x] = rL(x,0) ^ rL(x,1) ^ rL(x,2) ^ rL(x,3) ^ rL(x,4)
ThetaCx(A, x) ==
    XOR64(XOR64(XOR64(XOR64(rL(A,x,0), rL(A,x,1)), rL(A,x,2)), rL(A,x,3)), rL(A,x,4))

\* C[0..4], held as a tuple indexed from 1
ThetaC(A) == <<ThetaCx(A, 0), ThetaCx(A, 1), ThetaCx(A, 2), ThetaCx(A, 3), ThetaCx(A, 4)>>

\* theta, second loop: D = C[(x+4)%5] ^ ROL(C[(x+1)%5], 1)
ThetaD(C, x) == XOR64(C[((x + 4) % 5) + 1], ROL(C[((x + 1) % 5) + 1], 1))

RECURSIVE ThetaXor(_)
\* theta, second loop, flattened: n = 5*x + y runs over FOR(x,5) FOR(y,5) XL(x,y,D);
\* the loop variables are one record l = [A, C, n]
ThetaXor(l) ==
    IF l.n = 25 THEN l.A
    ELSE ThetaXor([A |-> XL(l.A, l.n \div 5, l.n % 5, ThetaD(l.C, l.n \div 5)),
                   C |-> l.C, n |-> l.n + 1])

Theta(A) == ThetaXor([A |-> A, C |-> ThetaC(A), n |-> 0])

\* mutant of PiY: the coefficients of x and y are exchanged
PiY_swapped(x, y) == (3 * x + 2 * y) % 5

\* Y = (2*x + 3*y) % 5
PiY(x, y) == (2 * x + 3 * y) % 5

\* rho/pi, one iteration: r += j+1; Y = (2x+3y)%5; x = y; y = Y;
\*                        C[0] = rL(x,y); wL(x,y,ROL(D,r%64)); D = C[0];
\* the loop variables are one record l = [A, j, x, y, r, D]
RhoPiIter(l) ==
    LET r2 == l.r + l.j + 1
        x2 == l.y
        y2 == PiY(l.x, l.y)
        C0 == rL(l.A, x2, y2)
    IN  [A |-> wL(l.A, x2, y2, ROL(l.D, r2 % 64)), j |-> l.j + 1,
         x |-> x2, y |-> y2, r |-> r2, D |-> C0]

\* x = 1; y = r = 0; D = rL(x, y): the loop variables before FOR(j,24)
RhoPiStart(A) == [A |-> A, j |-> 0, x |-> 1, y |-> 0, r |-> 0, D |-> rL(A, 1, 0)]

RECURSIVE RhoPiLoop(_)
\* rho/pi: FOR(j,24) { ... }
RhoPiLoop(l) == IF l.j = 24 THEN l.A ELSE RhoPiLoop(RhoPiIter(l))

RhoPi(A) == RhoPiLoop(RhoPiStart(A))

\* mutant of ChiLane: the complement of C[(x+1)%5] is dropped
ChiLane_noNot(C, x) == XOR64(C[x + 1], AND64(C[((x + 1) % 5) + 1], C[((x + 2) % 5) + 1]))

\* chi, the new lane x of a row whose old lanes are C (a tuple indexed from 1)
ChiLane(C, x) == XOR64(C[x + 1], AND64(NOT64(C[((x + 1) % 5) + 1]), C[((x + 2) % 5) + 1]))

\* chi on row y: FOR(x,5) C[x] = rL(x,y); FOR(x,5) wL(x,y, C[x]^((~C[(x+1)%5])&C[(x+2)%5]))
ChiRow(A, y) ==
    LET C == <<rL(A, 0, y), rL(A, 1, y), rL(A, 2, y), rL(A, 3, y), rL(A, 4, y)>>
    IN  wL(wL(wL(wL(wL(A, 0, y, ChiLane(C, 0)), 1, y, ChiLane(C, 1)),
                 2, y, ChiLane(C, 2)), 3, y, ChiLane(C, 3)), 4, y, ChiLane(C, 4))

\* FOR(y,5) { chi on row y }
Chi(A) == ChiRow(ChiRow(ChiRow(ChiRow(ChiRow(A, 0), 1), 2), 3), 4)

RECURSIVE IotaLoop(_)
\* iota: FOR(j,7) if (LFSR86540(&R)) XL(0,0,(u64)1 << ((1<<j)-1));
\* the loop variables are one record l = [A, R, j]; returns [A, R]
IotaLoop(l) ==
    IF l.j = 7 THEN [A |-> l.A, R |-> l.R]
    ELSE LET f == LFSR86540(l.R)
         IN  IotaLoop([A |-> IF f.bit = 1 THEN XL(l.A, 0, 0, {Pow2(l.j) - 1}) ELSE l.A,
                       R |-> f.R, j |-> l.j + 1])

Iota(A, R) == IotaLoop([A |-> A, R |-> R, j |-> 0])

\* one round on lanes A with round-constant register R: theta, rho/pi, chi,
\* iota; returns [A, R]
Round(A, R) == Iota(Chi(RhoPi(Theta(A))), R)

RECURSIVE Rounds(_)
\* for(i = 0; i < 24; i++) { round }; the loop variables are l = [A, R, i]
Rounds(l) ==
    IF l.i = 24 THEN l.A
    ELSE LET n == Round(l.A, l.R)
         IN  Rounds([A |-> n.A, R |-> n.R, i |-> l.i + 1])

\* KeccakF1600(s): u8 R = 0x01 at the start of every call, then 24 rounds
KeccakF1600(s) == Bytes(Rounds([A |-> Lanes(s), R |-> 1, i |-> 0]))

\* ---------------------------------------------------------------------
\* Bounds of the model and the inputs drawn from them
\* ---------------------------------------------------------------------
MaxInLen  == 3      \* longest input of a direct Keccak call, in bytes
MaxOutLen == 3      \* longest output requested from a direct Keccak call
MaxStuck  == 3      \* permutations explored in a call whose rate is 0 bytes
MaxCalls  == 2      \* invocations in one sequence of invocations

\* "test", the bytes 0x74 0x65 0x73 0x74
TestBytes == <<116, 101, 115, 116>>

\* the input of n bytes: "test" repeated and cut to n bytes
Message(n) == [i \in 1..n |-> TestBytes[((i - 1) % 4) + 1]]

\* inputs of the direct calls and of the Keccak-256 entry points ("" and "test")
Inputs    == { Message(n) : n \in 0..MaxInLen }
HashInputs == { Message(0), Message(4) }

\* sfx: 0x01 (Keccak), 0x06 (SHA-3), and 0x86, a suffix with bit 0x80 set
Suffixes == {1, 6, 134}

\* well-formed (r, c): r a positive multiple of 8, r + c = 1600
RateParams == { [r |-> 8, c |-> 1592], [r |-> 16, c |-> 1584] }

\* the widest rate, the rate 0, and malformed pairs (r not a multiple of 8;
\* r + c # 1600)
EdgeParams == { [r |-> 1600, c |-> 0], [r |-> 0, c |-> 1600],
                [r |-> 12, c |-> 1588], [r |-> 16, c |-> 512] }

\* the configuration the documentation of Keccak asks for
WellFormed(rr, cc) == rr % 8 = 0 /\ rr + cc = 1600

\* ---------------------------------------------------------------------
\* The sponge: one invocation of Keccak, block by block
\* ---------------------------------------------------------------------
ZeroState == [i \in 0..199 |-> 0]

\* what the memory of the local u8 s[200] may hold before FOR(i,200) s[i] = 0
StackGarbage == { ZeroState, [i \in 0..199 |-> 170] }

\* mutant of StateInit: the zeroing loop is missing
StateInit_keep(old) == old

\* FOR(i, 200) s[i] = 0, on memory that held old
StateInit(old) == ZeroState

\* s[i] ^= v
XorAt(st, i, v) == [st EXCEPT ![i] = XorByte(@, v)]

\* FOR(i, b) s[i] ^= in[i], the input cursor being ip bytes into the input
XorBlock(st, input, ip, blk) ==
    [i \in 0..199 |-> IF i < blk THEN XorByte(st[i], input[ip + i + 1]) ELSE st[i]]

\* mutant of Remaining: the length is not reduced
Remaining_same(len, blk) == len

\* inLen -= b; outLen -= b
Remaining(len, blk) == len - blk

\* b = (len < R) ? len : R
MinLen(len, rate) == IF len < rate THEN len ELSE rate

\* mutant of PadExtra: the test of the suffix's bit 0x80 is missing
PadExtra_anySuffix(sf, blk, rate) == rate >= 1 /\ blk = rate - 1

\* (sfx & 0x80) && (b == (R-1)); R-1 is unsigned, so it equals no b when R = 0
PadExtra(sf, blk, rate) == BitOf(sf, 7) = 1 /\ rate >= 1 /\ blk = rate - 1

\* snprintf(hex + 2*i, 3, "%02x", hash[i])
HexDigit == <<"0", "1", "2", "3", "4", "5", "6", "7",
              "8", "9", "a", "b", "c", "d", "e", "f">>
\* mutant of Hex2: the low nibble is printed first
Hex2_swapped(v) == HexDigit[(v % 16) + 1] \o HexDigit[(v \div 16) + 1]

Hex2(v) == HexDigit[(v \div 16) + 1] \o HexDigit[(v % 16) + 1]

RECURSIVE HexFrom(_, _)
\* for (i = 0; i < 32; i++) snprintf(...), from byte i (1-based) on
HexFrom(bytes, i) ==
    IF i > Len(bytes) THEN "" ELSE Hex2(bytes[i]) \o HexFrom(bytes, i + 1)

HexString(bytes) == HexFrom(bytes, 1)

VARIABLES
    pc,       \* position in Keccak: idle, absorb, absorb_f, pad, pad_f, pad_bit,
              \* pad_f2, squeeze, squeeze_f, return, done, crash
    api,      \* the entry point of the invocation: Keccak, KECCAK_256, keccak_hash
    raw,      \* raw_output of keccak_hash
    r, c,     \* rate and capacity in bits, as passed
    R,        \* ui R = r / 8
    in,       \* the input bytes
    ip,       \* how far the pointer in has advanced
    inLen,    \* remaining input length
    sfx,      \* suffix byte
    outReq,   \* output length requested
    outLen,   \* remaining output length
    s,        \* u8 s[200]
    b,        \* ui b
    out,      \* the bytes written to out so far
    ret,      \* what keccak_hash returned
    nperm,    \* KeccakF1600 calls of this invocation
    idx,      \* indices of s that Keccak itself has read or written
    sAbs,     \* s when the absorb loop ended
    sPad,     \* s after the final padding permutation
    nPad,     \* nperm after the final padding permutation
    ncalls,   \* invocations started
    log,      \* finished invocations: [r, sfx, in, outReq, out]
    lfsr,     \* a round-constant register stepped on its own: [R, bit, n, seen]
    pm        \* two states taken through the permutation side by side

spongeVars == <<pc, api, raw, r, c, R, in, ip, inLen, sfx, outReq, outLen, s, b,
                out, ret, nperm, idx, sAbs, sPad, nPad, ncalls, log>>

vars == <<pc, api, raw, r, c, R, in, ip, inLen, sfx, outReq, outLen, s, b,
          out, ret, nperm, idx, sAbs, sPad, nPad, ncalls, log, lfsr, pm>>

NoRet == [type |-> "none", str |-> "", bytes |-> <<>>]

SpongeInit ==
    /\ pc = "idle" /\ api = "none" /\ raw = FALSE
    /\ r = 0 /\ c = 0 /\ R = 0
    /\ in = <<>> /\ ip = 0 /\ inLen = 0
    /\ sfx = 0 /\ outReq = 0 /\ outLen = 0
    /\ s \in StackGarbage
    /\ b = 0 /\ out = <<>> /\ ret = NoRet
    /\ nperm = 0 /\ idx = {}
    /\ sAbs = ZeroState /\ sPad = ZeroState /\ nPad = 0
    /\ ncalls = 0 /\ log = {}

\* while (inLen > 0) is tested: into the loop body, or on to the padding
AbsorbTest(len) == IF len > 0 THEN "absorb" ELSE "pad"

\* Keccak(r, c, in, inLen, sfx, out, outLen) is entered: R = r/8, b = 0,
\* the state is zeroed, the absorb loop is reached
Enter(entry, rawOut, rr, cc, input, sf, ol) ==
    /\ api' = entry /\ raw' = rawOut
    /\ r' = rr /\ c' = cc /\ R' = rr \div 8
    /\ in' = input /\ ip' = 0 /\ inLen' = Len(input)
    /\ sfx' = sf /\ outReq' = ol /\ outLen' = ol
    /\ s' = StateInit(s)
    /\ b' = 0 /\ out' = <<>> /\ ret' = NoRet
    /\ nperm' = 0 /\ idx' = {}
    /\ sAbs' = ZeroState /\ sPad' = ZeroState /\ nPad' = 0
    /\ ncalls' = ncalls + 1
    /\ pc' = AbsorbTest(Len(input))
    /\ UNCHANGED <<log, lfsr, pm>>

\* a direct call of the generic sponge
CallKeccak ==
    /\ pc = "idle"
    /\ \E p \in RateParams, input \in Inputs, sf \in Suffixes, ol \in 0..MaxOutLen :
          Enter("Keccak", FALSE, p.r, p.c, input, sf, ol)

\* a direct call of the generic sponge with an edge or malformed (r, c)
CallKeccakEdge ==
    /\ pc = "idle"
    /\ \E p \in EdgeParams, input \in {Message(0), Message(1)}, ol \in 0..1 :
          Enter("Keccak", FALSE, p.r, p.c, input, 1, ol)

\* KECCAK_256(in, inLen, out): Keccak(1088, 512, in, inLen, 0x01, out, 32)
CallKECCAK_256 ==
    /\ pc = "idle"
    /\ \E input \in HashInputs : Enter("KECCAK_256", FALSE, 1088, 512, input, 1, 32)

\* keccak_hash(data [, raw_output]): KECCAK_256 on the bytes of the string
CallKeccakHash ==
    /\ pc = "idle"
    /\ \E input \in HashInputs, rawOut \in BOOLEAN :
          Enter("keccak_hash", rawOut, 1088, 512, input, 1, 32)

\* absorb loop body: b = min(inLen, R); FOR(i,b) s[i] ^= in[i]; in += b;
\* inLen -= b; then the test b == R
Absorb ==
    /\ pc = "absorb"
    /\ LET blk == MinLen(inLen, R)
       IN  /\ b' = blk
           /\ s' = XorBlock(s, in, ip, blk)
           /\ ip' = ip + blk
           /\ inLen' = Remaining(inLen, blk)
           /\ idx' = idx \cup (0..(blk - 1))
           /\ pc' = IF blk = R THEN "absorb_f" ELSE AbsorbTest(Remaining(inLen, blk))
    /\ UNCHANGED <<api, raw, r, c, R, in, sfx, outReq, outLen, out, ret, nperm,
                   sAbs, sPad, nPad, ncalls, log, lfsr, pm>>

\* full block: KeccakF1600(s); b = 0; back to the loop test
AbsorbF ==
    /\ pc = "absorb_f"
    /\ ~(R = 0 /\ nperm >= MaxStuck)
    /\ s' = KeccakF1600(s)
    /\ b' = 0
    /\ nperm' = nperm + 1
    /\ pc' = AbsorbTest(inLen)
    /\ UNCHANGED <<api, raw, r, c, R, in, ip, inLen, sfx, outReq, outLen, out, ret,
                   idx, sAbs, sPad, nPad, ncalls, log, lfsr, pm>>

\* s[b] ^= sfx; then the test (sfx & 0x80) && (b == (R-1))
PadSfx ==
    /\ pc = "pad"
    /\ sAbs' = s
    /\ s' = XorAt(s, b, sfx)
    /\ idx' = idx \cup {b}
    /\ pc' = IF PadExtra(sfx, b, R) THEN "pad_f" ELSE "pad_bit"
    /\ UNCHANGED <<api, raw, r, c, R, in, ip, inLen, sfx, outReq, outLen, b, out,
                   ret, nperm, sPad, nPad, ncalls, log, lfsr, pm>>

\* the extra permutation of the padding
PadF ==
    /\ pc = "pad_f"
    /\ s' = KeccakF1600(s)
    /\ nperm' = nperm + 1
    /\ pc' = "pad_bit"
    /\ UNCHANGED <<api, raw, r, c, R, in, ip, inLen, sfx, outReq, outLen, b, out,
                   ret, idx, sAbs, sPad, nPad, ncalls, log, lfsr, pm>>

\* mutant of LastRateByte: the final bit goes one byte too far
LastRateByte_off(rate) == rate

\* the index R-1 of s[R-1] ^= 0x80
LastRateByte(rate) == rate - 1

\* s[R-1] ^= 0x80, the index being inside s[200]
PadBit ==
    /\ pc = "pad_bit"
    /\ R \in 1..200
    /\ s' = XorAt(s, LastRateByte(R), 128)
    /\ idx' = idx \cup {LastRateByte(R)}
    /\ pc' = "pad_f2"
    /\ UNCHANGED <<api, raw, r, c, R, in, ip, inLen, sfx, outReq, outLen, b, out,
                   ret, nperm, sAbs, sPad, nPad, ncalls, log, lfsr, pm>>

\* s[R-1] ^= 0x80 with R = 0: the unsigned index R-1 is outside s[200], which is
\* undefined behaviour; here the access faults
PadBitFault ==
    /\ pc = "pad_bit"
    /\ R \notin 1..200
    /\ idx' = idx \cup {R - 1}
    /\ pc' = "crash"
    /\ UNCHANGED <<api, raw, r, c, R, in, ip, inLen, sfx, outReq, outLen, s, b, out,
                   ret, nperm, sAbs, sPad, nPad, ncalls, log, lfsr, pm>>

\* the same undefined access; here it lands in memory outside the locals and
\* the call goes on
PadBitStray ==
    /\ pc = "pad_bit"
    /\ R \notin 1..200
    /\ idx' = idx \cup {R - 1}
    /\ pc' = "pad_f2"
    /\ UNCHANGED <<api, raw, r, c, R, in, ip, inLen, sfx, outReq, outLen, s, b, out,
                   ret, nperm, sAbs, sPad, nPad, ncalls, log, lfsr, pm>>

\* while (outLen > 0) is tested: into the loop body, or return
SqueezeTest(len) == IF len > 0 THEN "squeeze" ELSE "return"

\* the final permutation of the padding, then the squeeze loop test
PadF2 ==
    /\ pc = "pad_f2"
    /\ s' = KeccakF1600(s)
    /\ sPad' = s'
    /\ nperm' = nperm + 1
    /\ nPad' = nperm + 1
    /\ pc' = SqueezeTest(outLen)
    /\ UNCHANGED <<api, raw, r, c, R, in, ip, inLen, sfx, outReq, outLen, b, out,
                   ret, idx, sAbs, ncalls, log, lfsr, pm>>

\* mutants of MoreOutput: never permuting again, always permuting again
MoreOutput_never(len) == FALSE
MoreOutput_always(len) == TRUE

\* if (outLen > 0) KeccakF1600(s), after a block was copied
MoreOutput(len) == len > 0

\* squeeze loop body: b = min(outLen, R); FOR(i,b) out[i] = s[i]; out += b;
\* outLen -= b; then the test outLen > 0
Squeeze ==
    /\ pc = "squeeze"
    /\ LET blk == MinLen(outLen, R)
       IN  /\ b' = blk
           /\ out' = out \o [i \in 1..blk |-> s[i - 1]]
           /\ outLen' = Remaining(outLen, blk)
           /\ idx' = idx \cup (0..(blk - 1))
           /\ pc' = IF MoreOutput(Remaining(outLen, blk)) THEN "squeeze_f" ELSE "return"
    /\ UNCHANGED <<api, raw, r, c, R, in, ip, inLen, sfx, outReq, s, ret, nperm,
                   sAbs, sPad, nPad, ncalls, log, lfsr, pm>>

\* more output needed: KeccakF1600(s); back to the loop body (outLen > 0 holds)
SqueezeF ==
    /\ pc = "squeeze_f"
    /\ ~(R = 0 /\ nperm >= MaxStuck)
    /\ s' = KeccakF1600(s)
    /\ nperm' = nperm + 1
    /\ pc' = SqueezeTest(outLen)
    /\ UNCHANGED <<api, raw, r, c, R, in, ip, inLen, sfx, outReq, outLen, b, out,
                   ret, idx, sAbs, sPad, nPad, ncalls, log, lfsr, pm>>

\* what keccak_hash returns: RETURN_STRINGL(hash, 32) or the hex string
HashReturn(rawOut, hash) ==
    IF rawOut THEN [type |-> "raw", str |-> "", bytes |-> hash]
    ELSE [type |-> "hex", str |-> HexString(hash), bytes |-> <<>>]

\* Keccak returns; keccak_hash formats the 32 bytes
Return ==
    /\ pc = "return"
    /\ ret' = IF api = "keccak_hash" THEN HashReturn(raw, out) ELSE NoRet
    /\ log' = log \cup {[r |-> r, sfx |-> sfx, in |-> in, outReq |-> outReq, out |-> out]}
    /\ pc' = "done"
    /\ UNCHANGED <<api, raw, r, c, R, in, ip, inLen, sfx, outReq, outLen, s, b, out,
                   nperm, idx, sAbs, sPad, nPad, ncalls,
                   lfsr, pm>>

Steps ==
    \/ Absorb \/ AbsorbF \/ PadSfx \/ PadF \/ PadBit \/ PadBitFault \/ PadBitStray
    \/ PadF2 \/ Squeeze \/ SqueezeF \/ Return

\* the variables of the other specifications, at rest
NoLfsr == [R |-> 1, bit |-> 0, n |-> 0, seen |-> {1}]
NoPm   == [a |-> 0, b |-> 0, A |-> <<>>, B |-> <<>>, R |-> 1, i |-> 0, step |-> "off"]

\* ---------------------------------------------------------------------
\* One invocation with any parameters
\* ---------------------------------------------------------------------
Init == SpongeInit /\ lfsr = NoLfsr /\ pm = NoPm

Next == CallKeccak \/ CallKeccakEdge \/ CallKECCAK_256 \/ CallKeccakHash \/ Steps

Spec == Init /\ [][Next]_vars

\* ---------------------------------------------------------------------
\* A sequence of invocations of the Keccak-256 entry point and of the sponge
\* ---------------------------------------------------------------------
\* an invocation starts when none is running
CallSeq256 ==
    /\ pc \in {"idle", "done"}
    /\ ncalls < MaxCalls
    /\ \E input \in HashInputs : Enter("KECCAK_256", FALSE, 1088, 512, input, 1, 32)

CallSeqKeccak ==
    /\ pc \in {"idle", "done"}
    /\ ncalls < MaxCalls
    /\ \E input \in HashInputs : Enter("Keccak", FALSE, 8, 1592, input, 134, 3)

\* the steps of a call whose R is in 1..200 (the out-of-range s[R-1] needs R = 0)
NextSeq ==
    \/ CallSeq256 \/ CallSeqKeccak
    \/ Absorb \/ AbsorbF \/ PadSfx \/ PadF \/ PadBit \/ PadF2 \/ Squeeze \/ SqueezeF
    \/ Return

SpecSeq == Init /\ [][NextSeq]_vars

\* ---------------------------------------------------------------------
\* The round-constant register on its own
\* ---------------------------------------------------------------------
MaxLfsrSteps == 260     \* LFSR86540 calls explored from R = 0x01

LfsrStep ==
    /\ lfsr.n < MaxLfsrSteps
    /\ LET f == LFSR86540(lfsr.R)
       IN  lfsr' = [R |-> f.R, bit |-> f.bit, n |-> lfsr.n + 1,
                    seen |-> lfsr.seen \cup {f.R}]
    /\ UNCHANGED <<spongeVars, pm>>

InitLfsr == SpongeInit /\ s = ZeroState /\ lfsr = NoLfsr /\ pm = NoPm

NextLfsr == LfsrStep

SpecLFSR == InitLfsr /\ [][NextLfsr]_vars

\* ---------------------------------------------------------------------
\* Two sampled states taken through KeccakF1600 side by side, one sub-step
\* of a round at a time
\* ---------------------------------------------------------------------
PermSamples == 5        \* sampled states besides the all-zero state

\* sample 0 is the all-zero state; sample k >= 1 has the single bit 127*k set
\* (bit 127 is the top bit of lane (1,0))
SampleBit(k) == (127 * k) % 1600
Sample(k) ==
    IF k = 0 THEN ZeroState
    ELSE [ZeroState EXCEPT ![SampleBit(k) \div 8] = Pow2(SampleBit(k) % 8)]

InitPerm ==
    /\ SpongeInit /\ s = ZeroState /\ lfsr = NoLfsr
    /\ \E a \in 0..PermSamples, bb \in 0..PermSamples :
          /\ a < bb
          /\ pm = [a |-> a, b |-> bb, A |-> Lanes(Sample(a)), B |-> Lanes(Sample(bb)),
                   R |-> 1, i |-> 0, step |-> "theta"]

PermTheta ==
    /\ pm.step = "theta"
    /\ pm' = [pm EXCEPT !.A = Theta(pm.A), !.B = Theta(pm.B), !.step = "rhopi"]
    /\ UNCHANGED <<spongeVars, lfsr>>

PermRhoPi ==
    /\ pm.step = "rhopi"
    /\ pm' = [pm EXCEPT !.A = RhoPi(pm.A), !.B = RhoPi(pm.B), !.step = "chi"]
    /\ UNCHANGED <<spongeVars, lfsr>>

PermChi ==
    /\ pm.step = "chi"
    /\ pm' = [pm EXCEPT !.A = Chi(pm.A), !.B = Chi(pm.B), !.step = "iota"]
    /\ UNCHANGED <<spongeVars, lfsr>>

\* iota ends the round: the next round, or the end of the 24 rounds
PermIota ==
    /\ pm.step = "iota"
    /\ pm' = [pm EXCEPT !.A = Iota(pm.A, pm.R).A, !.B = Iota(pm.B, pm.R).A,
                        !.R = Iota(pm.A, pm.R).R, !.i = pm.i + 1,
                        !.step = IF pm.i + 1 < 24 THEN "theta" ELSE "end"]
    /\ UNCHANGED <<spongeVars, lfsr>>

NextPerm == PermTheta \/ PermRhoPi \/ PermChi \/ PermIota

SpecPerm == InitPerm /\ [][NextPerm]_vars

\* ---------------------------------------------------------------------
\* The rho/pi pass of one round, one iteration of FOR(j,24) at a time
\* ---------------------------------------------------------------------
\* the lanes a pass starts from: theta applied to a permuted sample
PassInput(k) == Theta(Lanes(KeccakF1600(Sample(k))))

NoWrites == [n \in 1..25 |-> 0]

\* pm holds the lanes before the pass (A0), the loop variables (l), the
\* position the loop stood on before its last iteration (fx, fy), and how
\* often each lane was written (writes)
InitRhoPi ==
    /\ SpongeInit /\ s = ZeroState /\ lfsr = NoLfsr
    /\ \E k \in 0..PermSamples :
          pm = [k |-> k, A0 |-> PassInput(k), l |-> RhoPiStart(PassInput(k)),
                fx |-> 1, fy |-> 0, writes |-> NoWrites, step |-> "loop"]

RhoPiStep ==
    /\ pm.step = "loop"
    /\ pm.l.j < 24
    /\ LET l2 == RhoPiIter(pm.l)
       IN  pm' = [pm EXCEPT !.l = l2, !.fx = pm.l.x, !.fy = pm.l.y,
                            !.writes = [@ EXCEPT ![l2.x + 5 * l2.y + 1] = @ + 1]]
    /\ UNCHANGED <<spongeVars, lfsr>>

\* the loop test fails at j = 24: the pass is over
RhoPiEnd ==
    /\ pm.step = "loop"
    /\ pm.l.j = 24
    /\ pm' = [pm EXCEPT !.step = "end"]
    /\ UNCHANGED <<spongeVars, lfsr>>

NextRhoPi == RhoPiStep \/ RhoPiEnd

SpecRhoPi == InitRhoPi /\ [][NextRhoPi]_vars

\* ---------------------------------------------------------------------
\* Properties
\* ---------------------------------------------------------------------
CeilDiv(a, d) == (a + d - 1) \div d

RECURSIVE IterF(_, _)
\* KeccakF1600 applied k times to st
IterF(st, k) == IF k = 0 THEN st ELSE IterF(KeccakF1600(st), k - 1)

\* the state from which output block k (k = 0, 1, ...) is copied
BlockState(k) == IterF(sPad, k)

\* C1: when Keccak returns with R >= 1, exactly the requested number of bytes
\* was written; the byte at offset i of output block k is byte i of the state
\* reached by k further permutations from the state left by the final padding
\* permutation; and the squeeze phase ran ceil(outLen/R) - 1 permutations (none
\* when outLen = 0), so none after the last block.
C1_SqueezeExact ==
    (pc \in {"return", "done"} /\ R >= 1) =>
        /\ Len(out) = outReq
        /\ outLen = 0
        /\ \A k \in 0..(CeilDiv(outReq, R) - 1) :
              LET st == BlockState(k)
              IN  \A i \in 0..(R - 1) :
                     (k * R + i < outReq) => out[k * R + i + 1] = st[i]
        /\ nperm - nPad = IF outReq > 0 THEN CeilDiv(outReq, R) - 1 ELSE 0

\* C1 witness: a call returned 3 bytes at rate 2 bytes, a length above the
\* rate and no multiple of it
C1_Witness ==
    pc = "done" /\ api = "Keccak" /\ R = 2 /\ outReq = 3 /\ Len(out) = 3
    /\ nperm = nPad + 1

Keccak256Call == api \in {"KECCAK_256", "keccak_hash"}

\* C2 as stated: the Keccak-256 hash of the empty input, in lower-case hex, is
\* the 63-digit string of the specification
C2_EmptyHashAsStated ==
    (pc = "done" /\ Keccak256Call /\ in = <<>>) =>
        HexString(out) = "c5d2460186f7233c927e7db2dcc703c0e500b653ca82273b7bfad8045d85a47"

\* C2 amended: the Keccak-256 hash of the empty input (rate 1088, capacity 512,
\* suffix 0x01, 32 output bytes) in lower-case hex is the 64-digit string
\* c5d2...a470
C2_EmptyHash ==
    (pc = "done" /\ Keccak256Call /\ in = <<>>) =>
        /\ r = 1088 /\ c = 512 /\ sfx = 1 /\ Len(out) = 32
        /\ HexString(out) = "c5d2460186f7233c927e7db2dcc703c0e500b653ca82273b7bfad8045d85a470"

\* C2 witness: KECCAK_256 has returned for the empty input
C2_Witness == pc = "done" /\ api = "KECCAK_256" /\ in = <<>> /\ Len(out) = 32

\* C3: keccak_hash("test") with raw_output = false returns the 64 lower-case hex
\* digits 9c22...b658: the 32 bytes of KECCAK_256 on 0x74 0x65 0x73 0x74, each
\* byte as two digits, high nibble first
C3_TestHashHex ==
    (pc = "done" /\ api = "keccak_hash" /\ ~raw /\ in = <<116, 101, 115, 116>>) =>
        /\ ret.type = "hex"
        /\ Len(ret.str) = 64
        /\ ret.str = "9c22ff5f21f0b81b113e63f7db6da94fedef11b2119b4088b89664fb9a3cb658"
        /\ Len(out) = 32
        /\ out[1] = 156 /\ out[2] = 34 /\ out[32] = 88

\* C3 witness: keccak_hash("test") has returned a hex string
C3_Witness ==
    pc = "done" /\ api = "keccak_hash" /\ ~raw /\ in = <<116, 101, 115, 116>>
    /\ ret.type = "hex"

SameCall(e1, e2) ==
    e1.r = e2.r /\ e1.sfx = e2.sfx /\ e1.in = e2.in /\ e1.outReq = e2.outReq

\* C5: in a sequence of invocations, two invocations with the same rate,
\* suffix, input and output length return the same output whatever ran before;
\* every invocation works on a state that was all zero when it began
C5_Deterministic ==
    /\ \A e1 \in log : \A e2 \in log : SameCall(e1, e2) => e1.out = e2.out
    /\ (pc \in {"absorb", "pad"} /\ nperm = 0 /\ idx = {}) => s = ZeroState
    /\ (pc = "pad" /\ nperm = 0 /\ in = <<>>) => s = ZeroState

\* C5 witness: a second invocation, started after a first one had left its
\* state behind, returned, and the whole sequence left one entry in the log:
\* the second invocation repeated the first and returned the same output
C5_Witness ==
    /\ ncalls = 2 /\ pc = "done" /\ Cardinality(log) = 1
    /\ api = "KECCAK_256" /\ in = <<116, 101, 115, 116>>

\* the bytes KeccakF1600 returns for sample k
PermOf(k) == KeccakF1600(Sample(k))

\* C6: two distinct states stay distinct through theta, rho/pi, chi and iota of
\* every round, and KeccakF1600 maps them to distinct states; the lanes
\* reached step by step are those of KeccakF1600
C6_Injective ==
    (pm.step # "off") =>
        /\ Sample(pm.a) # Sample(pm.b)
        /\ pm.A # pm.B
        /\ (pm.step = "end") =>
              /\ PermOf(pm.a) # PermOf(pm.b)
              /\ Bytes(pm.A) = PermOf(pm.a)
              /\ Bytes(pm.B) = PermOf(pm.b)

\* C6 witness: the all-zero state and the state with only bit 127 set have been
\* through all 24 rounds
C6_Witness == pm.step = "end" /\ pm.i = 24 /\ pm.a = 0 /\ pm.b = 1

\* a call with r a multiple of 8 and r + c = 1600 is running or has run
WellFormedCall == ncalls > 0 /\ WellFormed(r, c)

\* C7 as stated: for every well-formed rate r >= 0, each iteration of the
\* absorb loop strictly decreases the remaining input length
C7_AbsorbDecreasesFromRate0 ==
    [][(pc = "absorb" /\ WellFormedCall /\ r >= 0) => inLen' < inLen]_vars

\* how far a position is from the end of the call; KeccakF1600 steps rank above
\* the loop body they return to
PcRank ==
    [p \in {"idle", "crash", "done", "return", "squeeze", "squeeze_f", "pad_f2",
            "pad_bit", "pad_f", "pad", "absorb", "absorb_f"} |->
        CASE p = "done" -> 0      [] p = "return" -> 1  [] p = "squeeze" -> 2
          [] p = "squeeze_f" -> 3 [] p = "pad_f2" -> 4  [] p = "pad_bit" -> 5
          [] p = "pad_f" -> 6     [] p = "pad" -> 7     [] p = "absorb" -> 8
          [] p = "absorb_f" -> 9  [] OTHER -> 15]

\* the measure of what is left of a call: the remaining lengths, then the position
Rank == 16 * (inLen + outLen) + PcRank[pc]

\* some step of Keccak can be taken at the current position
CanStep ==
    \/ pc \in {"absorb", "absorb_f", "pad", "pad_f", "pad_f2", "squeeze", "squeeze_f",
               "return"}
    \/ pc = "pad_bit" /\ R \in 1..200

\* C7 amended: for every well-formed rate r >= 8, each iteration of the absorb
\* loop and of the squeeze loop strictly decreases the remaining length; every
\* step of the call strictly decreases the natural-number measure Rank, which is
\* 0 exactly when the call is done, and a call that is not done can always take
\* a step and never faults: so the call terminates, and it has then written
\* the requested output
C7_TotalFromRate8 ==
    /\ [][(pc = "absorb" /\ WellFormedCall /\ r >= 8) => inLen' < inLen]_vars
    /\ [][(pc = "squeeze" /\ WellFormedCall /\ r >= 8) => outLen' < outLen]_vars
    /\ [][(pc # "done" /\ WellFormedCall /\ r >= 8) => Rank' < Rank]_vars
    /\ []((WellFormedCall /\ r >= 8) =>
            /\ pc # "crash"
            /\ Rank >= 0
            /\ (Rank = 0) <=> (pc = "done")
            /\ (pc # "done") => CanStep
            /\ (pc = "done") => Len(out) = outReq)

\* C7 witness: a well-formed call that went three times round each loop is done
C7_Witness ==
    pc = "done" /\ WellFormedCall /\ r = 8 /\ Len(in) = 3 /\ outReq = 3
    /\ Len(out) = 3

\* the cursor the absorb loop leaves, and whether the padding permutes twice
Cursor == Len(in) % R
Extra  == BitOf(sfx, 7) = 1 /\ Cursor = R - 1
ExtraPerms == IF Extra THEN 1 ELSE 0

\* the state once the suffix is in, and once the extra permutation (if any) ran
AfterSfx   == XorAt(sAbs, Cursor, sfx)
AfterExtra == IF Extra THEN KeccakF1600(AfterSfx) ELSE AfterSfx

\* C8: with R >= 1, the absorb loop ends after floor(inLen/R) permutations with
\* b = inLen mod R; the padding XORs sfx into s[b], permutes once more exactly
\* when sfx has bit 0x80 and b = R-1, XORs 0x80 into s[R-1] and permutes once;
\* with sfx = 0x01 there is no extra permutation and, at b = R-1, byte R-1
\* receives 0x81 before the one final permutation
C8_Padding ==
    (ncalls > 0 /\ R >= 1) =>
        /\ (pc = "pad") =>
              nperm = Len(in) \div R /\ b = Cursor /\ b \in 0..(R - 1) /\ inLen = 0
        /\ (pc = "pad_f") =>
              Extra /\ sfx # 1 /\ s = AfterSfx /\ nperm = Len(in) \div R
        /\ (pc = "pad_bit") =>
              nperm = (Len(in) \div R) + ExtraPerms /\ s = AfterExtra
        /\ (pc = "pad_f2") =>
              /\ nperm = (Len(in) \div R) + ExtraPerms
              /\ s = XorAt(AfterExtra, R - 1, 128)
              /\ (sfx = 1 /\ Cursor = R - 1) => s = XorAt(sAbs, R - 1, 129)
        /\ (pc \in {"squeeze", "squeeze_f", "return", "done"}) =>
              /\ nPad = (Len(in) \div R) + ExtraPerms + 1
              /\ (sfx = 1) => nPad = (Len(in) \div R) + 1

\* C8 witness: suffix 0x01 met the final bit in byte R-1 = 1 after one full
\* block, and only the final permutation is left
C8_Witness ==
    pc = "pad_f2" /\ sfx = 1 /\ R = 2 /\ Len(in) = 3 /\ b = 1 /\ nperm = 1
    /\ s[1] = XorByte(sAbs[1], 129)

\* the positions of Keccak outside KeccakF1600
OwnSteps == {"absorb", "pad", "pad_bit", "squeeze", "return"}

\* C9: with R in 1..200, every index of s that Keccak itself reads or writes
\* during absorption, padding and squeezing is in 0..R-1; outside KeccakF1600 the
\* bytes s[R..199] do not change; each squeeze step appends at most R leading
\* bytes of s to the output; and s stays 200 bytes
C9_RateOnly ==
    /\ []((ncalls > 0 /\ R \in 1..200) =>
            /\ idx \subseteq 0..(R - 1)
            /\ DOMAIN s = 0..199
            /\ \A i \in 0..199 : s[i] \in 0..255)
    /\ [][(ncalls > 0 /\ R \in 1..200 /\ pc \in OwnSteps) =>
            /\ \A i \in R..199 : s'[i] = s[i]
            /\ (pc = "squeeze") =>
                  \E n \in 0..R : out' = out \o [i \in 1..n |-> s[i - 1]]]_vars

\* C9 witness: a call at R = 200 is done, having touched s[0] and s[199]
C9_Witness == pc = "done" /\ R = 200 /\ idx = {0, 199} /\ Len(out) = 1

\* C10: from 0x01 the register is never 0, returns to 0x01 after exactly 255
\* steps and not earlier, has by then visited each of the 255 non-zero bytes
\* once, and every step returns 0 or 1
C10_MaximalLfsr ==
    /\ lfsr.R \in 1..255
    /\ lfsr.bit \in {0, 1}
    /\ (lfsr.n \in 1..254) => lfsr.R # 1
    /\ (lfsr.n <= 254) => Cardinality(lfsr.seen) = lfsr.n + 1
    /\ (lfsr.n >= 254) => lfsr.seen = 1..255
    /\ (lfsr.n = 255) => lfsr.R = 1

\* C10 witness: 255 steps were taken and the register is back at 0x01
C10_Witness == lfsr.n = 255 /\ lfsr.R = 1 /\ Cardinality(lfsr.seen) = 255

\* the accumulated triangular number T(n) = n(n+1)/2
Tri(n) == (n * (n + 1)) \div 2

\* the rotation offsets of rho in the Keccak reference, lane (x,y) at x + 5y + 1
RhoOffsets == << 0,  1, 62, 28, 27,
                36, 44,  6, 55, 20,
                 3, 10, 43, 25, 39,
                41, 45, 15, 21,  8,
                18,  2, 61, 56, 14>>

InPass == pm.step \in {"loop", "end"}

\* C11: in a rho/pi pass started at lane (1,0), after t of its 24 steps the
\* accumulator is T(t), exactly t lanes were written, each once, lane (0,0)
\* was not written and is unchanged, and unwritten lanes hold their pre-pass
\* value; the last step moved from (x,y) to (y, (2x+3y) mod 5) and stored there
\* the pre-pass value of lane (x,y) rotated left by T(t) mod 64, an amount in
\* 1..63 equal to the reference offset of lane (x,y); after 24 steps every lane
\* other than (0,0) was written exactly once and holds what the reference
\* rho and pi give it.
C11_RhoPiPass ==
    InPass =>
        LET l    == pm.l
            t    == pm.l.j
            from == pm.fx + 5 * pm.fy + 1
            to   == pm.l.x + 5 * pm.l.y + 1
        IN  /\ t \in 0..24
            /\ l.r = Tri(t)
            /\ \A n \in 1..25 : pm.writes[n] <= 1
            /\ pm.writes[1] = 0
            /\ l.A[1] = pm.A0[1]
            /\ Cardinality({n \in 1..25 : pm.writes[n] = 1}) = t
            /\ \A n \in 1..25 : (pm.writes[n] = 0) => l.A[n] = pm.A0[n]
            /\ (t < 24) => l.D = pm.A0[to]
            /\ (t >= 1) =>
                  /\ l.x = pm.fy
                  /\ l.y = (2 * pm.fx + 3 * pm.fy) % 5
                  /\ pm.writes[to] = 1
                  /\ (Tri(t) % 64) \in 1..63
                  /\ Tri(t) % 64 = RhoOffsets[from]
                  /\ l.A[to] = ROL(pm.A0[from], Tri(t) % 64)
            /\ (t = 24) =>
                  /\ \A n \in 2..25 : pm.writes[n] = 1
                  /\ \A x \in 0..4, y \in 0..4 :
                        (x + 5 * y + 1 # 1) =>
                            l.A[y + 5 * ((2 * x + 3 * y) % 5) + 1] =
                                ROL(pm.A0[x + 5 * y + 1], RhoOffsets[x + 5 * y + 1])

\* C11 witness: a pass over 25 pairwise different lanes has ended after its
\* 24 steps, standing on lane (1,0) again, and has changed the state
C11_Witness ==
    /\ pm.step = "end"
    /\ pm.l.j = 24
    /\ pm.l.x = 1 /\ pm.l.y = 0
    /\ pm.l.r = 300
    /\ Cardinality({pm.A0[n] : n \in 1..25}) = 25
    /\ pm.l.A # pm.A0
====
